---- MODULE Spec2Model ----
(***************************************************************************)
(* Request-lifecycle core of the inference engine: the continuous-batching *)
(* scheduler, the block manager, the prefix cache and the sequence state.  *)
(*                                                                         *)
(* A memory state M is a record                                            *)
(*   nodes  the prefix tree, NodeIds -> node (root is node 0, not stored)  *)
(*   leaf   PrefixCache::leaf_nodes_                                        *)
(*   nblk   PrefixCache::num_blocks_                                        *)
(*   rc     the reference count of every physical block                    *)
(*   free   the allocator's free list                                      *)
(*   data   what the KV slots of every block hold (the token prefix whose  *)
(*          keys/values were written into the slot, <<>> if none)          *)
(***************************************************************************)
EXTENDS Integers, Sequences, FiniteSets, TLC

\* ------------------------------------------------------------------ bounds
NumBlocks == 3
block_size == 2
MaxRequests == 3
MaxClock == 1
MaxCandidates == 3
MaxFlag == 2
\* the places of the intake queue in the specification with a full queue
kRequestQueueSize == 1

\* ------------------------------------------------------- program constants
HIGH == 1
MEDIUM == 2
LOW == 3
EosToken == 0
enable_prefix_cache == TRUE

Min(a, b) == IF a < b THEN a ELSE b
Max(a, b) == IF a > b THEN a ELSE b

BlockIds == 0 .. (NumBlocks - 1)
NodeIds == 1 .. NumBlocks
Root == 0

SubSeqFrom(s, n) == SubSeq(s, n + 1, Len(s))
Take(s, n) == SubSeq(s, 1, n)
Range(s) == {s[i] : i \in 1 .. Len(s)}

\* ------------------------------------------------------------ Block handles
EmptyBlockData == [o \in 0 .. (block_size - 1) |-> <<>>]

\* copying a Block handle
IncRef(M, b) == [M EXCEPT !.rc[b] = @ + 1]

\* destroying a Block handle: the last one returns the block to the allocator
DecRef(M, b) ==
  IF M.rc[b] = 1
    THEN [M EXCEPT !.rc[b] = 0, !.free = @ \cup {b}, !.data[b] = EmptyBlockData]
    ELSE [M EXCEPT !.rc[b] = @ - 1]

RECURSIVE CopyBlocks(_, _)
CopyBlocks(M, blocks) ==
  IF blocks = <<>> THEN M
  ELSE CopyBlocks(IncRef(M, Head(blocks)), Tail(blocks))

RECURSIVE DropBlocks(_, _)
DropBlocks(M, blocks) ==
  IF blocks = <<>> THEN M
  ELSE DropBlocks(DecRef(M, Head(blocks)), Tail(blocks))

is_shared(M, b) == M.rc[b] > 1

\* ---------------------------------------------------------- BlockAllocator
free_block_count(M) == Cardinality(M.free)

RECURSIVE LowestFree(_, _)
LowestFree(free, k) ==
  IF k = 0 THEN <<>>
  ELSE LET b == CHOOSE x \in free : \A y \in free : x <= y
       IN <<b>> \o LowestFree(free \ {b}, k - 1)

\* allocate(k): k fresh handles with ref_count 1 (callers check free count)
Allocate(M, k) ==
  LET ids == LowestFree(M.free, k)
  IN [M |-> [M EXCEPT !.free = @ \ Range(ids),
                      !.rc = [b \in BlockIds |-> IF b \in Range(ids) THEN 1 ELSE @[b]]],
      blocks |-> ids]

\* -------------------------------------------------------------- PrefixCache
\* leaf_time is the access time under which the node was put into leaf_nodes_
\* (0 for a node that is not in it)
NoNode == [used |-> FALSE, token_ids |-> <<>>, blocks |-> <<>>,
           parent |-> Root, last_access_time |-> 0, leaf_time |-> 0]

RECURSIVE common_prefix_length(_, _)
common_prefix_length(a, b) ==
  IF a = <<>> \/ b = <<>> \/ Head(a) # Head(b) THEN 0
  ELSE 1 + common_prefix_length(Tail(a), Tail(b))

round_down(n, multiple) == (n \div multiple) * multiple

Children(nodes, p) == {n \in NodeIds : nodes[n].used /\ nodes[n].parent = p}

is_leaf_node(nodes, n) == n # Root /\ Children(nodes, n) = {}

\* children that never match: every insert makes a new child
MatchingChildren_none(nodes, curr, slice) == {}

\* the children of curr that share at least one whole block with the slice
MatchingChildren(nodes, curr, slice) ==
  {c \in Children(nodes, curr) :
     round_down(common_prefix_length(slice, nodes[c].token_ids), block_size) > 0}

FirstOf(S) == CHOOSE x \in S : \A y \in S : x <= y

RECURSIVE MatchFrom(_, _, _, _, _)
MatchFrom(M, curr, slice, blocks, now) ==
  LET cands == MatchingChildren(M.nodes, curr, slice)
  IN IF slice = <<>> \/ cands = {} THEN [M |-> M, blocks |-> blocks]
     ELSE LET child == FirstOf(cands)
              node == M.nodes[child]
              prefix_length ==
                round_down(common_prefix_length(slice, node.token_ids), block_size)
              n_blocks == prefix_length \div block_size
              got == Take(node.blocks, n_blocks)
              M1 == CopyBlocks([M EXCEPT !.nodes[child].last_access_time = now], got)
          IN IF prefix_length = Len(node.token_ids)
               THEN MatchFrom(M1, child, SubSeqFrom(slice, prefix_length), blocks \o got, now)
               ELSE [M |-> M1, blocks |-> blocks \o got]

\* a match that looks at the first block of the tokens only
match_one_block(M, token_ids, now) ==
  MatchFrom(M, Root, Take(token_ids, Min(Len(token_ids), block_size)), <<>>, now)

\* PrefixCache::match: the blocks of the longest cached block-aligned prefix
match(M, token_ids, now) ==
  MatchFrom(M, Root, Take(token_ids, round_down(Len(token_ids), block_size)), <<>>, now)

NewNodeId(nodes) == FirstOf({n \in NodeIds : ~nodes[n].used})

create_child(M, node, tokens, blocks, now) ==
  LET child == NewNodeId(M.nodes)
      was_leaf == is_leaf_node(M.nodes, node)
      M1 == CopyBlocks(M, blocks)
  IN [M1 EXCEPT !.nodes = [n \in NodeIds |->
                   IF n = child
                     THEN [used |-> TRUE, token_ids |-> tokens, blocks |-> blocks,
                           parent |-> node, last_access_time |-> now,
                           leaf_time |-> now]
                   ELSE IF n = node /\ was_leaf THEN [@[n] EXCEPT !.leaf_time = 0]
                   ELSE @[n]],
                !.nblk = @ + Len(blocks),
                !.leaf = (@ \cup {child}) \ (IF was_leaf THEN {node} ELSE {})]

\* a split that hands the child the first blocks of the node, not the last
split_node_head(M, node, prefix_length) ==
  LET n_blocks == prefix_length \div block_size
      old == M.nodes[node]
      was_leaf == is_leaf_node(M.nodes, node)
      child == NewNodeId(M.nodes)
      grand == Children(M.nodes, node)
  IN [M EXCEPT
        !.nodes = [n \in NodeIds |->
           IF n = child
             THEN [used |-> TRUE,
                   token_ids |-> SubSeqFrom(old.token_ids, prefix_length),
                   blocks |-> Take(old.blocks, Len(old.blocks) - n_blocks),
                   parent |-> node,
                   last_access_time |-> old.last_access_time,
                   leaf_time |-> IF was_leaf THEN old.last_access_time ELSE 0]
           ELSE IF n = node
             THEN [old EXCEPT !.token_ids = Take(old.token_ids, prefix_length),
                              !.blocks = Take(old.blocks, n_blocks),
                              !.leaf_time = 0]
           ELSE IF n \in grand THEN [@[n] EXCEPT !.parent = child]
           ELSE @[n]],
        !.leaf = IF was_leaf THEN (@ \ {node}) \cup {child} ELSE @]

split_node(M, node, prefix_length) ==
  LET n_blocks == prefix_length \div block_size
      old == M.nodes[node]
      was_leaf == is_leaf_node(M.nodes, node)
      child == NewNodeId(M.nodes)
      grand == Children(M.nodes, node)
  IN [M EXCEPT
        !.nodes = [n \in NodeIds |->
           IF n = child
             THEN [used |-> TRUE,
                   token_ids |-> SubSeqFrom(old.token_ids, prefix_length),
                   blocks |-> SubSeqFrom(old.blocks, n_blocks),
                   parent |-> node,
                   last_access_time |-> old.last_access_time,
                   leaf_time |-> IF was_leaf THEN old.last_access_time ELSE 0]
           ELSE IF n = node
             THEN [old EXCEPT !.token_ids = Take(old.token_ids, prefix_length),
                              !.blocks = Take(old.blocks, n_blocks),
                              !.leaf_time = 0]
           ELSE IF n \in grand THEN [@[n] EXCEPT !.parent = child]
           ELSE @[n]],
        !.leaf = IF was_leaf THEN (@ \ {node}) \cup {child} ELSE @]

RECURSIVE InsertFrom(_, _, _, _, _, _)
InsertFrom(M, curr, tokens, blocks, now, inserted) ==
  LET cands == MatchingChildren(M.nodes, curr, tokens)
  IN IF tokens = <<>> THEN [M |-> M, inserted |-> inserted]
     ELSE IF cands = {}
       THEN [M |-> create_child(M, curr, tokens, blocks, now),
             inserted |-> inserted + Len(tokens)]
     ELSE LET child == FirstOf(cands)
              node == M.nodes[child]
              prefix_length ==
                round_down(common_prefix_length(tokens, node.token_ids), block_size)
              n_blocks == prefix_length \div block_size
              M1 == [M EXCEPT !.nodes[child].last_access_time = now]
              M2 == IF prefix_length < Len(node.token_ids)
                      THEN split_node(M1, child, prefix_length) ELSE M1
          IN InsertFrom(M2, child, SubSeqFrom(tokens, prefix_length),
                        SubSeqFrom(blocks, n_blocks), now, inserted)

\* an insert that leaves out the last whole block
insert_short(M, token_ids, blocks, now) ==
  LET n_blocks == Max(Min(Len(token_ids) \div block_size, Len(blocks)) - 1, 0)
  IN InsertFrom(M, Root, Take(token_ids, n_blocks * block_size),
                Take(blocks, n_blocks), now, 0)

\* PrefixCache::insert: cache the whole blocks of token_ids that are not cached
insert(M, token_ids, blocks, now) ==
  LET n_blocks == Min(Len(token_ids) \div block_size, Len(blocks))
  IN InsertFrom(M, Root, Take(token_ids, n_blocks * block_size),
                Take(blocks, n_blocks), now, 0)

\* leaf_nodes_ in iteration order: by the access time the leaves were put in
\* with, older node first
RECURSIVE SortLeaves(_, _)
SortLeaves(nodes, S) ==
  IF S = {} THEN <<>>
  ELSE LET n == CHOOSE x \in S : \A y \in S :
                  \/ nodes[x].leaf_time < nodes[y].leaf_time
                  \/ /\ nodes[x].leaf_time = nodes[y].leaf_time
                     /\ x <= y
       IN <<n>> \o SortLeaves(nodes, S \ {n})

\* index (from 0) of the first block of the node that is not shared
RECURSIVE NonSharedStart(_, _)
\* a scan that takes every block of the leaf for evictable
NonSharedStart_none(M, blocks) == 0

NonSharedStart(M, blocks) ==
  IF blocks = <<>> \/ ~is_shared(M, Head(blocks)) THEN 0
  ELSE 1 + NonSharedStart(M, Tail(blocks))

release_node(M, node) ==
  LET parent == M.nodes[node].parent
      M1 == [M EXCEPT !.nodes[node] = NoNode, !.leaf = @ \ {node}]
      M2 == IF is_leaf_node(M1.nodes, parent)
              THEN [M1 EXCEPT !.leaf = @ \cup {parent},
                              !.nodes[parent].leaf_time =
                                 M1.nodes[parent].last_access_time]
              ELSE M1
  IN DropBlocks(M2, M.nodes[node].blocks)

RECURSIVE ReleaseNodes(_, _)
ReleaseNodes(M, nodes_to_evict) ==
  IF nodes_to_evict = <<>> THEN M
  ELSE ReleaseNodes(release_node(M, Head(nodes_to_evict)), Tail(nodes_to_evict))

\* the scan of evict_helper over the leaves; st = [M, total, nodes_to_evict]
RECURSIVE EvictScan(_, _, _)
EvictScan(st, leaves, n_blocks_to_evict) ==
  IF leaves = <<>> \/ st.total >= n_blocks_to_evict THEN st
  ELSE LET leaf_node == Head(leaves)
           blocks == st.M.nodes[leaf_node].blocks
           n_blocks == Len(blocks)
           non_shared_start == NonSharedStart(st.M, blocks)
           n_to_evict == Min(n_blocks_to_evict - st.total, n_blocks - non_shared_start)
           n_blocks_left == n_blocks - n_to_evict
           st1 ==
             IF n_to_evict = n_blocks
               THEN [st EXCEPT !.nodes_to_evict = Append(@, leaf_node)]
             ELSE IF n_to_evict > 0
               THEN [st EXCEPT !.M =
                       DropBlocks(
                         [@ EXCEPT !.nodes[leaf_node].token_ids =
                                      Take(@, n_blocks_left * block_size),
                                   !.nodes[leaf_node].blocks = Take(@, n_blocks_left)],
                         SubSeqFrom(blocks, n_blocks_left))]
             ELSE st
       IN EvictScan([st1 EXCEPT !.total = @ + n_to_evict], Tail(leaves), n_blocks_to_evict)

\* a round that forgets to update the number of cached blocks
evict_helper_uncounted(M, n_blocks_to_evict) ==
  LET Scanned(st) ==
        [M |-> ReleaseNodes(st.M, st.nodes_to_evict), evicted |-> st.total]
  IN Scanned(EvictScan([M |-> M, total |-> 0, nodes_to_evict |-> <<>>],
                       SortLeaves(M.nodes, M.leaf), n_blocks_to_evict))

evict_helper(M, n_blocks_to_evict) ==
  LET Scanned(st) ==
        [M |-> [ReleaseNodes(st.M, st.nodes_to_evict) EXCEPT !.nblk = @ - st.total],
         evicted |-> st.total]
  IN Scanned(EvictScan([M |-> M, total |-> 0, nodes_to_evict |-> <<>>],
                       SortLeaves(M.nodes, M.leaf), n_blocks_to_evict))

\* PrefixCache::evict: rounds of evict_helper until enough or nothing left
RECURSIVE EvictLoop(_, _, _)
EvictLoop(M, n_blocks_to_evict, total_evicted) ==
  IF total_evicted >= n_blocks_to_evict THEN [M |-> M, evicted |-> total_evicted]
  ELSE LET Round(r) ==
             IF r.evicted = 0 THEN [M |-> M, evicted |-> total_evicted]
             ELSE EvictLoop(r.M, n_blocks_to_evict, total_evicted + r.evicted)
       IN Round(evict_helper(M, n_blocks_to_evict - total_evicted))

evict(M, n_blocks_to_evict) == EvictLoop(M, n_blocks_to_evict, 0)

\* absl::Now() as the cache sees it: later than every access time in the tree
AccessTimes(M) ==
  {M.nodes[n].last_access_time : n \in {x \in NodeIds : M.nodes[x].used}}
  \cup {M.nodes[n].leaf_time : n \in M.leaf}
CacheNow(M) ==
  IF AccessTimes(M) = {} THEN 1
  ELSE 1 + CHOOSE t \in AccessTimes(M) : \A u \in AccessTimes(M) : u <= t

\* evict only compares access times: they are kept as their rank in the tree
Ranked(M) ==
  [M EXCEPT !.nodes = [n \in NodeIds |->
     IF M.nodes[n].used
       THEN [M.nodes[n] EXCEPT
               !.last_access_time =
                  1 + Cardinality({t \in AccessTimes(M) : t < M.nodes[n].last_access_time}),
               !.leaf_time =
                  IF n \in M.leaf
                    THEN 1 + Cardinality({t \in AccessTimes(M) : t < M.nodes[n].leaf_time})
                    ELSE 0]
       ELSE M.nodes[n]]]


\* ----------------------------------------------------------------- Sequence
\* a sequence: token_ids holds the valid tokens [0, num_tokens); kv is the
\* number of tokens in the kv cache; shared counts the leading blocks that
\* came from the prefix cache
NewSequence(prompt_tokens, capacity, max_tokens) ==
  [token_ids |-> prompt_tokens, num_prompt_tokens |-> Len(prompt_tokens),
   kv |-> 0, blocks |-> <<>>, capacity |-> capacity, max_tokens |-> max_tokens,
   ignore_eos_token |-> FALSE, stop_token_ids |-> {}, stop_sequences |-> {},
   shared |-> 0]

num_tokens(seq) == Len(seq.token_ids)
num_generated_tokens(seq) == num_tokens(seq) - seq.num_prompt_tokens
tokens_in_kv_cache(seq) == Take(seq.token_ids, seq.kv)
\* a sequence that never counts as prefill
is_prefill_stage_never(seq) == FALSE
is_prefill_stage(seq) == seq.kv < seq.num_prompt_tokens
kv_cache_capacity(seq) == Len(seq.blocks) * block_size

\* sequence_end_withs
sequence_end_withs(sequence, suffix) ==
  \/ suffix = <<>>
  \/ /\ Len(sequence) >= Len(suffix)
     /\ SubSeq(sequence, Len(sequence) - Len(suffix) + 1, Len(sequence)) = suffix

\* the four tests of Sequence::check_finished on the last token
eos_token_found(seq) ==
  ~seq.ignore_eos_token /\ seq.token_ids[num_tokens(seq)] = EosToken

stop_token_found(seq) == seq.token_ids[num_tokens(seq)] \in seq.stop_token_ids

stop_sequence_found(seq) ==
  \E stop_sequence \in seq.stop_sequences :
    /\ stop_sequence[Len(stop_sequence)] = seq.token_ids[num_tokens(seq)]
    /\ sequence_end_withs(seq.token_ids, stop_sequence)

max_tokens_reached(seq) ==
  seq.max_tokens > 0 /\ num_generated_tokens(seq) >= seq.max_tokens

\* a check that tests the length before the stop criteria
check_finished_length_first(seq) ==
  IF max_tokens_reached(seq) THEN "LENGTH"
  ELSE IF eos_token_found(seq) \/ stop_token_found(seq) \/ stop_sequence_found(seq)
    THEN "STOP"
  ELSE "NONE"

\* Sequence::check_finished on the last token: "STOP", "LENGTH" or "NONE"
check_finished(seq) ==
  IF eos_token_found(seq) THEN "STOP"
  ELSE IF stop_token_found(seq) THEN "STOP"
  ELSE IF stop_sequence_found(seq) THEN "STOP"
  ELSE IF max_tokens_reached(seq) THEN "LENGTH"
  ELSE "NONE"

is_finished(seq) == check_finished(seq) # "NONE"

\* shared blocks taken without moving the kv cache position behind them
append_shared_blocks_from_start(seq, shared_blocks) ==
  IF shared_blocks = <<>> THEN [seq |-> seq, crash |-> FALSE]
  ELSE [seq |-> [seq EXCEPT !.blocks = shared_blocks, !.shared = Len(shared_blocks)],
        crash |-> FALSE]

\* Sequence::append_shared_blocks; crash is the failed CHECK
append_shared_blocks(seq, shared_blocks) ==
  IF shared_blocks = <<>> THEN [seq |-> seq, crash |-> FALSE]
  ELSE LET pos == Len(shared_blocks) * block_size
           kv_cache_pos == IF pos = seq.num_prompt_tokens THEN pos - 1 ELSE pos
       IN [seq |-> [seq EXCEPT !.blocks = shared_blocks, !.kv = kv_cache_pos,
                               !.shared = Len(shared_blocks)],
           crash |-> ~(kv_cache_pos < seq.num_prompt_tokens)]

\* ------------------------------------------------------------- BlockManager
allocate_shared_blocks(M, seq, now) ==
  IF enable_prefix_cache /\ Len(seq.blocks) = 0
    THEN LET Matched(r) ==
               LET a == append_shared_blocks(seq, r.blocks)
               IN [M |-> r.M, seq |-> a.seq, crash |-> a.crash]
         IN Matched(match(M, seq.token_ids, now))
    ELSE [M |-> M, seq |-> seq, crash |-> FALSE]

has_enough_blocks(M, num_blocks) ==
  IF num_blocks <= free_block_count(M) THEN [M |-> M, ok |-> TRUE]
  ELSE IF ~enable_prefix_cache THEN [M |-> M, ok |-> FALSE]
  ELSE LET n_blocks_to_evict == num_blocks - free_block_count(M)
           Evicted(r) ==
             IF r.evicted < n_blocks_to_evict THEN [M |-> r.M, ok |-> FALSE]
             ELSE [M |-> r.M, ok |-> free_block_count(r.M) >= num_blocks]
       IN Evicted(evict(M, n_blocks_to_evict))

BlockManager_allocate_blocks_for(M, seq, n_tokens, now) ==
  LET num_blocks_needed == (n_tokens + block_size - 1) \div block_size
      Shared(s) ==
        LET n_blocks == Len(s.seq.blocks)
            num_additional_blocks == num_blocks_needed - n_blocks
            Checked(h) ==
              LET a == Allocate(h.M, num_additional_blocks)
              IN IF ~h.ok THEN [M |-> h.M, seq |-> s.seq, ok |-> FALSE, crash |-> FALSE]
                 ELSE [M |-> a.M, seq |-> [s.seq EXCEPT !.blocks = @ \o a.blocks],
                       ok |-> TRUE, crash |-> FALSE]
        IN IF s.crash THEN [M |-> s.M, seq |-> s.seq, ok |-> FALSE, crash |-> TRUE]
           ELSE IF num_blocks_needed <= n_blocks
             THEN [M |-> s.M, seq |-> s.seq, ok |-> TRUE, crash |-> FALSE]
           ELSE Checked(has_enough_blocks(s.M, num_additional_blocks))
  IN Shared(allocate_shared_blocks(M, seq, now))

\* a release that caches the blocks but keeps the sequence's handles alive
release_blocks_for_leak(M, seq, now) ==
  LET M1 == IF enable_prefix_cache
              THEN insert(M, tokens_in_kv_cache(seq), seq.blocks, now).M ELSE M
  IN [M |-> M1, seq |-> [seq EXCEPT !.kv = 0, !.blocks = <<>>, !.shared = 0]]

\* BlockManager::release_blocks_for(Sequence*)
release_blocks_for(M, seq, now) ==
  LET M1 == IF enable_prefix_cache
              THEN insert(M, tokens_in_kv_cache(seq), seq.blocks, now).M ELSE M
  IN [M |-> DropBlocks(M1, seq.blocks),
      seq |-> [seq EXCEPT !.kv = 0, !.blocks = <<>>, !.shared = 0]]

\* BlockManager::release_blocks_for(Request*): every sequence in turn
RECURSIVE ReleaseSequences(_, _, _, _)
ReleaseSequences(M, seqs, i, now) ==
  IF i > Len(seqs) THEN [M |-> M, seqs |-> seqs]
  ELSE LET Released(r) == ReleaseSequences(r.M, [seqs EXCEPT ![i] = r.seq], i + 1, now)
       IN Released(release_blocks_for(M, seqs[i], now))

\* ContinuousBatchingScheduler::allocate_blocks_for
allocate_blocks_for(M, seq, token_budget, now) ==
  LET Shared(s) ==
        LET num_tokens_in_kv_cache == s.seq.kv
            n_tokens == Min(num_tokens_in_kv_cache + token_budget, num_tokens(s.seq))
            Allocated(r) ==
              [M |-> r.M, seq |-> r.seq, ok |-> r.ok,
               actual_tokens |-> n_tokens - num_tokens_in_kv_cache, crash |-> r.crash]
        IN IF s.crash
             THEN [M |-> s.M, seq |-> s.seq, ok |-> FALSE, actual_tokens |-> 0,
                   crash |-> TRUE]
           ELSE Allocated(BlockManager_allocate_blocks_for(s.M, s.seq, n_tokens, now))
  IN Shared(IF Len(seq.blocks) = 0 THEN allocate_shared_blocks(M, seq, now)
            ELSE [M |-> M, seq |-> seq, crash |-> FALSE])


\* ---------------------------------------------------------------- Scheduler
VARIABLES
  cfg,                      \* the flags and the requests the clients may send
  now,                      \* the clock
  mem,                      \* block allocator, reference counts, prefix cache
  requests,                 \* every Request created so far, by id
  request_queue_,           \* the intake queue
  priority_queue_,          \* the requests waiting to be scheduled
  requests_batch_,          \* the requests of the current batch
  sequences_batch_,         \* the sequences of the current batch
  preemptable_candidates_,  \* the requests that may be preempted
  pc,                       \* where the scheduler loop is
  loc,                      \* the locals of build_sequence_batch
  ev,                       \* what the last scheduler action did
  fail                      \* the last failed block allocation of the action

vars == <<cfg, now, mem, requests, request_queue_, priority_queue_, requests_batch_,
          sequences_batch_, preemptable_candidates_, pc, loc, ev, fail>>

NoLoc == [sequences_batch |-> <<>>, requests_batch |-> <<>>,
          remaining_token_budget |-> 0, remaining_seq_budget |-> 0, cur |-> 0]
NoEv == [kind |-> "none", request |-> 0, victim |-> 0, evictable |-> 0, evicted |-> 0,
         topup |-> FALSE]
NoFail == [valid |-> FALSE, before |-> <<>>, after |-> <<>>, cache_kept |-> TRUE,
           evicted |-> 0]

InitMem == [nodes |-> [n \in NodeIds |-> NoNode], leaf |-> {}, nblk |-> 0,
            rc |-> [b \in BlockIds |-> 0], free |-> BlockIds,
            data |-> [b \in BlockIds |-> EmptyBlockData]]

\* Request::Request and the first add_sequence of the handler
NewRequest(t, created_time) ==
  [priority |-> t.priority, created_time |-> created_time, num_seqs |-> t.num_seqs,
   sequences |->
     <<[NewSequence(t.prompt, Len(t.prompt) + t.max_tokens + 1, t.max_tokens)
          EXCEPT !.ignore_eos_token = t.ignore_eos_token,
                 !.stop_token_ids = t.stop_token_ids,
                 !.stop_sequences = t.stop_sequences]>>,
   is_rpc_ok |-> TRUE, error |-> "", alive |-> TRUE]

\* the memory of a request after `delete request`
FreedRequest ==
  [priority |-> 0, created_time |-> 0, num_seqs |-> 0, sequences |-> <<>>,
   is_rpc_ok |-> TRUE, error |-> "", alive |-> FALSE]

\* Request::is_finished
Request_is_finished(req) ==
  /\ Len(req.sequences) >= req.num_seqs
  /\ \A i \in 1 .. Len(req.sequences) : is_finished(req.sequences[i])

\* Request::is_cancelled: the client of the request is gone
Request_is_cancelled(req) == ~req.is_rpc_ok

\* the order of the priority queue: higher priority first, then older first
RequestBefore(a, b) ==
  \/ requests[a].priority < requests[b].priority
  \/ /\ requests[a].priority = requests[b].priority
     /\ requests[a].created_time < requests[b].created_time

\* the requests priority_queue_.top() may return
TopSet(pq) == {r \in pq : \A q \in pq : ~RequestBefore(q, r)}

HoldsBlocks(r) ==
  /\ requests[r].alive
  /\ \E i \in 1 .. Len(requests[r].sequences) : requests[r].sequences[i].blocks # <<>>

CachedBlocks(M) == UNION {Range(M.nodes[n].blocks) : n \in NodeIds}
EvictableBlocks(M) == {b \in CachedBlocks(M) : ~is_shared(M, b)}

\* request_queue_.write succeeds: the queue takes the pointer, the handler's
\* unique_ptr lets go of it, schedule returns true
Accept(t) ==
  /\ Len(requests) < MaxRequests
  /\ Len(request_queue_) < cfg.request_queue_size
  /\ requests' = Append(requests, NewRequest(t, now))
  /\ request_queue_' = Append(request_queue_, Len(requests) + 1)
  /\ UNCHANGED <<cfg, now, mem, priority_queue_, requests_batch_, sequences_batch_,
                 preemptable_candidates_, pc, loc, ev, fail>>

\* ContinuousBatchingScheduler::schedule; the intake queue is only read when a
\* step starts, so a request that arrives during a step is admitted after it
Schedule(t) ==
  /\ pc = "idle"
  /\ Accept(t)

\* schedule called by a handler thread while the scheduler thread is in a step
ScheduleInStep(t) ==
  /\ pc \in {"fill", "topup", "exec"}
  /\ Accept(t)

\* the request of a call that schedule refused: the handler finishes the call
\* with an error and its unique_ptr deletes the request
RejectedRequest == [FreedRequest EXCEPT !.error = "RESOURCE_EXHAUSTED"]

\* a schedule that takes the request although the queue is full
ScheduleFull_taken(t) ==
  /\ pc # "crashed"
  /\ Len(requests) < MaxRequests
  /\ Len(request_queue_) >= cfg.request_queue_size
  /\ requests' = Append(requests, NewRequest(t, now))
  /\ request_queue_' = Append(request_queue_, Len(requests) + 1)
  /\ UNCHANGED <<cfg, now, mem, priority_queue_, requests_batch_, sequences_batch_,
                 preemptable_candidates_, pc, loc, ev, fail>>

\* schedule when request_queue_.write finds the queue full, and the handler
\* that called it
ScheduleFull(t) ==
  /\ pc # "crashed"
  /\ Len(requests) < MaxRequests
  /\ Len(request_queue_) >= cfg.request_queue_size
  /\ requests' = Append(requests, RejectedRequest)
  /\ UNCHANGED <<cfg, now, mem, request_queue_, priority_queue_, requests_batch_,
                 sequences_batch_, preemptable_candidates_, pc, loc, ev, fail>>

\* ResponseHandler::on_request_finish: the blocks go back, the request is freed
on_request_finish(M, reqs, r, time) ==
  [M |-> ReleaseSequences(M, reqs[r].sequences, 1, time).M,
   requests |-> [reqs EXCEPT ![r] = FreedRequest]]

\* a drain that leaves out the request at the head of the intake queue
drain_lossy(pq, queue) == pq \cup Range(SubSeq(queue, 2, Len(queue)))

\* the drain of build_sequence_batch: every request of the intake queue is
\* read and pushed to the priority queue
drain(pq, queue) == pq \cup Range(queue)

\* the loop over last step's batch, from the lowest priority to the highest
RECURSIVE CarryOver(_, _, _)
CarryOver(st, batch, time) ==
  IF batch = <<>> THEN st
  ELSE LET r == batch[Len(batch)]
           rest == Take(batch, Len(batch) - 1)
       IN IF Request_is_finished(st.requests[r])
            THEN LET Finished(f) ==
                       CarryOver([st EXCEPT !.M = f.M, !.requests = f.requests], rest, time)
                 IN Finished(on_request_finish(st.M, st.requests, r, time))
            ELSE CarryOver([st EXCEPT !.preemptable = <<r>> \o @,
                                      !.pq = @ \cup {r}], rest, time)

\* the budgets a batch starts with: at least one token per sequence, at least
\* one sequence per batch
token_budget_per_batch == Max(cfg.max_tokens_per_batch, cfg.max_seqs_per_batch)

\* a sequence budget that is off by one
seq_budget_per_batch_off == Max(cfg.max_seqs_per_batch, 1) + 1

seq_budget_per_batch == Max(cfg.max_seqs_per_batch, 1)

\* build_sequence_batch up to the fill loop
BeginBuild ==
  /\ pc = "idle"
  /\ LET Carried(st) ==
           /\ Len(st.preemptable) <= MaxCandidates
           /\ mem' = Ranked(st.M)
           /\ requests' = st.requests
           /\ preemptable_candidates_' = st.preemptable
           /\ priority_queue_' = st.pq
     IN Carried(CarryOver([M |-> mem, requests |-> requests,
                           preemptable |-> preemptable_candidates_,
                           pq |-> drain(priority_queue_, request_queue_)],
                          requests_batch_, CacheNow(mem)))
  /\ request_queue_' = <<>>
  /\ loc' = [NoLoc EXCEPT !.remaining_token_budget = token_budget_per_batch,
                          !.remaining_seq_budget = seq_budget_per_batch]
  /\ pc' = "fill"
  /\ ev' = NoEv
  /\ fail' = NoFail
  /\ UNCHANGED <<cfg, now, requests_batch_, sequences_batch_>>


\* an average that hands the whole batch budget to every sequence
avg_sequence_token_budget_whole == Max(cfg.max_tokens_per_batch, 1)

avg_sequence_token_budget ==
  Max(cfg.max_tokens_per_batch \div cfg.max_seqs_per_batch, 1)

\* a fill loop that skips no sequence
skip_sequence_never(seq) == FALSE

\* the fill loop skips the sequences that are finished
skip_sequence(seq) == is_finished(seq)

\* the prefix cache and the free list as a caller can observe them: the
\* nodes with their tokens, blocks and parents, the number of cached blocks
\* and the free blocks
CacheView(M) ==
  [nodes |-> [n \in NodeIds |->
                [used |-> M.nodes[n].used, token_ids |-> M.nodes[n].token_ids,
                 blocks |-> M.nodes[n].blocks, parent |-> M.nodes[n].parent]],
   nblk |-> M.nblk, free |-> M.free]

\* what a call of allocate_blocks_for that returned false did: the blocks and
\* the kv cache position of the sequence before and after, whether the cache
\* and the free list are as before, and the blocks it evicted
FailedCall(M, seq, a) ==
  [valid |-> TRUE, before |-> <<seq.blocks, seq.kv>>, after |-> <<a.seq.blocks, a.seq.kv>>,
   cache_kept |-> CacheView(M) = CacheView(a.M), evicted |-> M.nblk - a.M.nblk]

\* the loop over the sequences of the request at the top of the queue
RECURSIVE SeqLoop(_, _, _)
SeqLoop(st, r, i) ==
  IF i > Len(st.seqs) THEN st
  ELSE IF skip_sequence(st.seqs[i]) THEN SeqLoop(st, r, i + 1)
  ELSE IF \/ st.allocated_tokens >= loc.remaining_token_budget
          \/ st.allocated_seqs >= loc.remaining_seq_budget THEN st
  ELSE LET token_budget == Min(avg_sequence_token_budget,
                               loc.remaining_token_budget - st.allocated_tokens)
           Allocated(a) ==
             IF a.crash THEN [st EXCEPT !.crash = TRUE]
             ELSE IF ~a.ok
               THEN [st EXCEPT !.M = a.M, !.seqs[i] = a.seq, !.has_enough_blocks = FALSE,
                               !.fail = FailedCall(st.M, st.seqs[i], a)]
             ELSE SeqLoop([st EXCEPT !.M = a.M, !.seqs[i] = a.seq,
                                     !.allocated_tokens = @ + a.actual_tokens,
                                     !.allocated_seqs = @ + 1,
                                     !.candidates = Append(@, [req |-> r, idx |-> i,
                                                     token_budget |-> a.actual_tokens])],
                          r, i + 1)
       IN Allocated(allocate_blocks_for(st.M, st.seqs[i], token_budget, CacheNow(mem)))

LoopCond ==
  /\ priority_queue_ # {}
  /\ loc.remaining_token_budget > 0
  /\ loc.remaining_seq_budget > 0

Crash ==
  /\ pc' = "crashed"
  /\ UNCHANGED <<cfg, now, mem, requests, request_queue_, priority_queue_,
                 requests_batch_, sequences_batch_, preemptable_candidates_, loc, fail>>

\* a victim that is read from the back of the candidates and left there
pop_back_kept(candidates) == candidates

\* preemptable_candidates_.pop_back()
pop_back(candidates) == Take(candidates, Len(candidates) - 1)

\* a queue that hands out its requests in no order
top_any == priority_queue_

\* priority_queue_.top(): the queue is not touched between a preemption and
\* the retry, so the retry sees the same request
top == IF loc.cur # 0 THEN {loc.cur} ELSE TopSet(priority_queue_)

\* a fill loop that never schedules a part of a request
partially_schedule_never(candidates) == FALSE

\* no requests left to preempt: the request is scheduled with the sequences
\* that got their blocks, if there are any
partially_schedule(candidates) == candidates # <<>>

\* one iteration of the fill loop of build_sequence_batch
FillIter ==
  /\ pc = "fill"
  /\ LoopCond
  /\ \E request \in top :
       LET Tried(st) ==
             LET reqs1 == [requests EXCEPT ![request].sequences = st.seqs]
                 scheduled == [loc EXCEPT
                    !.requests_batch = Append(@, request),
                    !.sequences_batch = @ \o st.candidates,
                    !.remaining_token_budget = @ - st.allocated_tokens,
                    !.remaining_seq_budget = @ - st.allocated_seqs,
                    !.cur = 0]
                 evictable == Cardinality(EvictableBlocks(st.M))
                 n == Len(preemptable_candidates_)
                 request_to_preempt == preemptable_candidates_[n]
                 Preempted(rel) ==
                   /\ mem' = Ranked(rel.M)
                   /\ requests' = [reqs1 EXCEPT ![request_to_preempt].sequences = rel.seqs]
             IN IF st.crash
                  THEN ev' = [NoEv EXCEPT !.kind = "check", !.request = request] /\ Crash
                ELSE IF st.has_enough_blocks
                  THEN \* schedule the candidates of the request
                       /\ priority_queue_' = priority_queue_ \ {request}
                       /\ loc' = scheduled
                       /\ preemptable_candidates_' =
                            IF /\ preemptable_candidates_ # <<>>
                               /\ request = Head(preemptable_candidates_)
                              THEN Tail(preemptable_candidates_)
                              ELSE preemptable_candidates_
                       /\ mem' = Ranked(st.M)
                       /\ requests' = reqs1
                       /\ ev' = [NoEv EXCEPT !.kind = "sched", !.request = request,
                                             !.evictable = evictable,
                                             !.evicted = mem.nblk - st.M.nblk]
                       /\ fail' = st.fail
                       /\ pc' = "fill"
                       /\ UNCHANGED <<cfg, now, request_queue_, requests_batch_,
                                      sequences_batch_>>
                ELSE IF preemptable_candidates_ # <<>>
                  THEN \* preempt the lowest priority request and retry
                       \/ \* the candidate was deleted: the use after free may fault
                          /\ ~requests[request_to_preempt].alive
                          /\ ev' = [NoEv EXCEPT !.kind = "dangling", !.request = request,
                                                !.victim = request_to_preempt]
                          /\ Crash
                       \/ /\ preemptable_candidates_' = pop_back(preemptable_candidates_)
                          /\ IF request_to_preempt # request
                               THEN /\ Preempted(ReleaseSequences(
                                         st.M, reqs1[request_to_preempt].sequences, 1,
                                         CacheNow(mem)))
                                    /\ ev' = [NoEv EXCEPT !.kind = "preempt",
                                                !.request = request,
                                                !.victim = request_to_preempt,
                                                !.evictable = evictable]
                               ELSE /\ mem' = Ranked(st.M)
                                    /\ requests' = reqs1
                                    /\ ev' = [NoEv EXCEPT !.kind = "selfpop",
                                                !.request = request,
                                                !.victim = request_to_preempt,
                                                !.evictable = evictable]
                          /\ loc' = [loc EXCEPT !.cur = request]
                          /\ fail' = st.fail
                          /\ pc' = "fill"
                          /\ UNCHANGED <<cfg, now, request_queue_, priority_queue_,
                                         requests_batch_, sequences_batch_>>
                ELSE \* no requests left to preempt, partially schedule the request
                     /\ IF partially_schedule(st.candidates)
                          THEN /\ priority_queue_' = priority_queue_ \ {request}
                               /\ loc' = scheduled
                               /\ ev' = [NoEv EXCEPT !.kind = "partial",
                                           !.request = request, !.evictable = evictable]
                          ELSE /\ priority_queue_' = priority_queue_
                               /\ loc' = [loc EXCEPT !.cur = request]
                               /\ ev' = [NoEv EXCEPT !.kind = "break",
                                           !.request = request, !.evictable = evictable]
                     /\ mem' = Ranked(st.M)
                     /\ requests' = reqs1
                     /\ fail' = st.fail
                     /\ pc' = "topup"
                     /\ UNCHANGED <<cfg, now, request_queue_, requests_batch_,
                                    sequences_batch_, preemptable_candidates_>>
       IN Tried(SeqLoop([M |-> mem, seqs |-> requests[request].sequences,
                         candidates |-> <<>>, has_enough_blocks |-> TRUE,
                         allocated_tokens |-> 0, allocated_seqs |-> 0,
                         crash |-> FALSE, fail |-> NoFail], request, 1))

\* a build without the top-up
TopUp_none(st, k) == st

\* the budget top-up loop over the provisional batch
RECURSIVE TopUp(_, _)
TopUp(st, k) ==
  IF k > Len(st.batch) THEN st
  ELSE LET e == st.batch[k]
           budget == st.remaining + e.token_budget
           sequence == st.requests[e.req].sequences[e.idx]
           Allocated(a) ==
             LET reqs1 == [st.requests EXCEPT ![e.req].sequences[e.idx] = a.seq]
                 st1 == [st EXCEPT !.M = a.M, !.requests = reqs1,
                                   !.batch[k].token_budget = a.actual_tokens,
                                   !.remaining = budget - a.actual_tokens]
             IN IF a.crash THEN [st EXCEPT !.crash = TRUE]
                ELSE IF ~a.ok
                  THEN [st EXCEPT !.M = a.M, !.requests = reqs1, !.remaining = budget,
                          !.fail = FailedCall(st.M, sequence, a)]
                ELSE IF st1.remaining = 0 THEN st1 ELSE TopUp(st1, k + 1)
       IN Allocated(allocate_blocks_for(st.M, sequence, budget, CacheNow(mem)))

\* build_sequence_batch after the fill loop: top-up, new batch, fallback
FinishBuild ==
  /\ \/ pc = "topup"
     \/ pc = "fill" /\ ~LoopCond
  /\ LET st0 == [M |-> mem, requests |-> requests, batch |-> loc.sequences_batch,
                 remaining |-> loc.remaining_token_budget, crash |-> FALSE,
                 fail |-> NoFail]
         Built(st) ==
           IF st.crash
             THEN ev' = [NoEv EXCEPT !.kind = "check"] /\ Crash
           ELSE
             /\ requests_batch_' = loc.requests_batch
             /\ sequences_batch_' = st.batch
             /\ fail' = st.fail
             /\ loc' = NoLoc
             /\ pc' = IF st.batch # <<>> THEN "exec" ELSE "idle"
             /\ IF st.batch = <<>> /\ priority_queue_ # {}
                  THEN \E request \in top :
                         LET Finished(f) ==
                               /\ mem' = Ranked(f.M)
                               /\ requests' = f.requests
                         IN /\ Finished(on_request_finish(st.M, st.requests, request,
                                                          CacheNow(mem)))
                            /\ priority_queue_' = priority_queue_ \ {request}
                            /\ ev' = [NoEv EXCEPT !.kind = "oom", !.request = request,
                                        !.evictable = Cardinality(EvictableBlocks(st.M))]
                  ELSE /\ priority_queue_' = priority_queue_
                       /\ mem' = Ranked(st.M)
                       /\ requests' = st.requests
                       /\ ev' = [NoEv EXCEPT !.kind = "built",
                                   !.topup = (st.batch # loc.sequences_batch)]
             /\ UNCHANGED <<cfg, now, request_queue_, preemptable_candidates_>>
     IN Built(IF loc.remaining_token_budget > 0 THEN TopUp(st0, 1) ELSE st0)

\* ------------------------------------------------------------------- Engine
\* the tokens the model may sample
SampleTokens == {1, EosToken}

\* the executor writes the keys/values of positions [from, to) of the sequence
RECURSIVE WriteSlots(_, _, _, _)
WriteSlots(data, seq, from, to) ==
  IF from >= to THEN data
  ELSE WriteSlots([data EXCEPT ![seq.blocks[(from \div block_size) + 1]]
                                  [from % block_size] = Take(seq.token_ids, from + 1)],
                  seq, from + 1, to)

\* Batch::prepare_model_inputs for the k-th sequence and on; st = [M, requests, crash]
RECURSIVE PrepareInputs(_, _)
PrepareInputs(st, k) ==
  IF k > Len(sequences_batch_) THEN st
  ELSE LET e == sequences_batch_[k]
           sequence == st.requests[e.req].sequences[e.idx]
           seq_len == num_tokens(sequence)
           n_tokens_in_kv_cache == sequence.kv
           n_tokens_to_process == Min(seq_len - n_tokens_in_kv_cache, e.token_budget)
       IN IF \/ is_finished(sequence)
             \/ kv_cache_capacity(sequence) < seq_len
             \/ n_tokens_to_process = 0
            THEN [st EXCEPT !.crash = TRUE]
          ELSE PrepareInputs(
                 [st EXCEPT !.requests[e.req].sequences[e.idx].kv = @ + n_tokens_to_process,
                            !.M.data = WriteSlots(@, sequence, n_tokens_in_kv_cache, seq_len)],
                 k + 1)

\* Batch::process_sample_output: the sampled token of every decode sequence
RECURSIVE ProcessOutput(_, _, _)
ProcessOutput(reqs, toks, k) ==
  IF k > Len(sequences_batch_) THEN reqs
  ELSE LET e == sequences_batch_[k]
           sequence == reqs[e.req].sequences[e.idx]
       IN ProcessOutput(
            IF is_prefill_stage(sequence) THEN reqs
            ELSE [reqs EXCEPT ![e.req].sequences[e.idx].token_ids = Append(@, toks[k])],
            toks, k + 1)

\* a sequence of the batch is about to get a token and its token buffer,
\* token_ids_ of size capacity, is full
BufferFull(reqs) ==
  \E k \in 1 .. Len(sequences_batch_) :
    LET sequence == reqs[sequences_batch_[k].req].sequences[sequences_batch_[k].idx]
    IN ~is_prefill_stage(sequence) /\ num_tokens(sequence) >= sequence.capacity

\* Engine::execute_model on the batch of the step. Appending to a full token
\* buffer either fails the CHECK of Sequence::append_token or, where the
\* append has no such CHECK, writes past the buffer
ExecuteModel ==
  /\ pc = "exec"
  /\ LET Prepared(st) ==
           IF st.crash
             THEN ev' = [NoEv EXCEPT !.kind = "check"] /\ Crash
           ELSE IF BufferFull(st.requests)
             THEN \/ ev' = [NoEv EXCEPT !.kind = "overflow"] /\ Crash
                  \/ \E toks \in [1 .. Len(sequences_batch_) -> SampleTokens] :
                       /\ ev' = [NoEv EXCEPT !.kind = "overflow"]
                       /\ mem' = Ranked(st.M)
                       /\ requests' = ProcessOutput(st.requests, toks, 1)
                       /\ pc' = "crashed"
                       /\ UNCHANGED <<cfg, now, request_queue_, priority_queue_,
                                      requests_batch_, sequences_batch_,
                                      preemptable_candidates_, loc, fail>>
           ELSE \E toks \in [1 .. Len(sequences_batch_) -> SampleTokens] :
                  /\ mem' = Ranked(st.M)
                  /\ requests' = ProcessOutput(st.requests, toks, 1)
                  /\ pc' = "idle"
                  /\ ev' = NoEv
                  /\ fail' = NoFail
                  /\ UNCHANGED <<cfg, now, request_queue_, priority_queue_,
                                 requests_batch_, sequences_batch_,
                                 preemptable_candidates_, loc>>
     IN Prepared(PrepareInputs([M |-> mem, requests |-> requests, crash |-> FALSE], 1))

\* the wall clock in seconds, as Request::created_time reads it
Tick ==
  /\ pc = "idle"
  /\ now < MaxClock
  /\ now' = now + 1
  /\ UNCHANGED <<cfg, mem, requests, request_queue_, priority_queue_, requests_batch_,
                 sequences_batch_, preemptable_candidates_, pc, loc, ev, fail>>

\* the client of request r goes away while the request is in the scheduler:
\* from then on is_rpc_ok() returns false and the stream callback fails
Disconnect(r) ==
  /\ pc # "crashed"
  /\ requests[r].alive
  /\ requests[r].is_rpc_ok
  /\ requests' = [requests EXCEPT ![r].is_rpc_ok = FALSE]
  /\ UNCHANGED <<cfg, now, mem, request_queue_, priority_queue_, requests_batch_,
                 sequences_batch_, preemptable_candidates_, pc, loc, ev, fail>>

\* Request::should_expand_sequences
should_expand_sequences(req) ==
  /\ Len(req.sequences) < req.num_seqs
  /\ req.sequences[1].kv >= req.sequences[1].num_prompt_tokens

\* Request::expand_sequences, called for a request that should expand: the
\* request gets its remaining sequences, each a fresh sequence of the prompt
expand_sequences(req) ==
  LET first == req.sequences[1]
      fresh == [first EXCEPT !.token_ids = Take(first.token_ids, first.num_prompt_tokens),
                             !.kv = 0, !.blocks = <<>>, !.shared = 0]
  IN [req EXCEPT !.sequences =
        @ \o [k \in 1 .. (req.num_seqs - Len(@)) |-> fresh]]

\* a caller of expand_sequences between two steps
Expand(r) ==
  /\ pc = "idle"
  /\ requests[r].alive
  /\ should_expand_sequences(requests[r])
  /\ requests' = [requests EXCEPT ![r] = expand_sequences(@)]
  /\ UNCHANGED <<cfg, now, mem, request_queue_, priority_queue_, requests_batch_,
                 sequences_batch_, preemptable_candidates_, pc, loc, ev, fail>>

\* ------------------------------------------------------------ specification
Templates(prios, prompts, maxs, ns) ==
  {[priority |-> p, prompt |-> pr, max_tokens |-> m, num_seqs |-> n,
    ignore_eos_token |-> FALSE, stop_token_ids |-> {}, stop_sequences |-> {}] :
     p \in prios, pr \in prompts, m \in maxs, n \in ns}

\* the templates with the stopping criteria of a request
WithCriteria(templates, ignore_eos_token, stop_token_ids, stop_sequences) ==
  {[t EXCEPT !.ignore_eos_token = ignore_eos_token,
             !.stop_token_ids = stop_token_ids,
             !.stop_sequences = stop_sequences] : t \in templates}

InitWith(c) ==
  /\ cfg = c
  /\ now = 0
  /\ mem = [InitMem EXCEPT !.free = 0 .. (c.num_blocks - 1)]
  /\ requests = <<>>
  /\ request_queue_ = <<>>
  /\ priority_queue_ = {}
  /\ requests_batch_ = <<>>
  /\ sequences_batch_ = <<>>
  /\ preemptable_candidates_ = <<>>
  /\ pc = "idle"
  /\ loc = NoLoc
  /\ ev = NoEv
  /\ fail = NoFail

MainCfg == [max_tokens_per_batch |-> 8, max_seqs_per_batch |-> 2,
   request_queue_size |-> MaxRequests, num_blocks |-> NumBlocks,
            templates |->
              Templates({HIGH, LOW}, {<<1>>, <<1, 1, 1>>, <<1, 1, 2>>}, {2}, {1})]

FanoutCfg == [max_tokens_per_batch |-> 8, max_seqs_per_batch |-> 2,
   request_queue_size |-> MaxRequests, num_blocks |-> NumBlocks,
              templates |-> Templates({HIGH}, {<<1, 1, 1>>}, {2}, {1})
                            \cup Templates({LOW}, {<<1>>}, {2}, {2})]
\* every setting of the two batch flags up to MaxFlag
BudgetCfgs ==
  {[max_tokens_per_batch |-> t, max_seqs_per_batch |-> n,
    request_queue_size |-> MaxRequests, num_blocks |-> NumBlocks,
    templates |-> Templates({MEDIUM}, {<<1>>, <<1, 1>>, <<1, 1, 1>>}, {2}, {1})] :
     t \in 1 .. MaxFlag, n \in 1 .. MaxFlag}

\* three priority classes and a sequence that outgrows its first block
PreemptCfg == [max_tokens_per_batch |-> 8, max_seqs_per_batch |-> 2,
   request_queue_size |-> MaxRequests, num_blocks |-> NumBlocks,
               templates |-> Templates({HIGH}, {<<1>>, <<1, 1, 1>>}, {2}, {1})
                             \cup Templates({MEDIUM}, {<<1, 1, 1>>}, {2, 3}, {1})
                             \cup Templates({LOW}, {<<1>>}, {3}, {1})]

\* requests of one class whose prompt fills one block exactly, so that the
\* first generated token needs a second block
TieCfg == [max_tokens_per_batch |-> 8, max_seqs_per_batch |-> 2,
   request_queue_size |-> MaxRequests, num_blocks |-> NumBlocks,
           templates |-> Templates({HIGH}, {<<1>>, <<1, 1>>}, {3}, {1})]

\* requests that set max_tokens to 0 beside requests that set a limit
UnlimitedCfg == [max_tokens_per_batch |-> 8, max_seqs_per_batch |-> 2,
   request_queue_size |-> MaxRequests, num_blocks |-> NumBlocks,
                 templates |-> Templates({MEDIUM}, {<<1>>, <<1, 1, 1>>}, {0, 2}, {1})]

\* prompts of two blocks that share no block with each other
EvictCfg == [max_tokens_per_batch |-> 8, max_seqs_per_batch |-> 2,
   request_queue_size |-> MaxRequests, num_blocks |-> NumBlocks,
             templates |-> Templates({HIGH, LOW}, {<<1, 1, 1>>, <<1, 2, 1>>}, {2}, {1})]

Init == InitWith(MainCfg)

Next ==
  \/ \E t \in cfg.templates : Schedule(t)
  \/ BeginBuild
  \/ FillIter
  \/ FinishBuild
  \/ ExecuteModel
  \/ Tick

Spec == Init /\ [][Next]_vars

\* the scheduler beside clients that may go away
ClientCfg == [max_tokens_per_batch |-> 8, max_seqs_per_batch |-> 2,
   request_queue_size |-> MaxRequests, num_blocks |-> NumBlocks,
              templates |-> Templates({HIGH}, {<<1>>, <<1, 1, 1>>}, {2}, {1})]

NextClient ==
  \/ Next
  \/ \E r \in 1 .. Len(requests) : Disconnect(r)

SpecClient == InitWith(ClientCfg) /\ [][NextClient]_vars

\* an intake queue of kRequestQueueSize places and handler threads that call schedule at
\* any point of the scheduler loop
IntakeCfg == [max_tokens_per_batch |-> 8, max_seqs_per_batch |-> 2,
              request_queue_size |-> kRequestQueueSize, num_blocks |-> NumBlocks,
              templates |-> Templates({HIGH}, {<<1>>, <<1, 1, 1>>}, {2}, {1})]

NextIntake ==
  \/ Next
  \/ \E t \in cfg.templates : ScheduleInStep(t)
  \/ \E t \in cfg.templates : ScheduleFull(t)

SpecIntake == InitWith(IntakeCfg) /\ [][NextIntake]_vars

\* requests with every combination of the stopping criteria: eos ignored or
\* not, token 1 as a stop token or not, <<1, 0>> as a stop sequence or not, a
\* limit of one or two new tokens; the prompt holds a token the model never
\* samples
FinishCfgs ==
  {[max_tokens_per_batch |-> 8, max_seqs_per_batch |-> 2,
    request_queue_size |-> MaxRequests, num_blocks |-> NumBlocks,
    templates |-> WithCriteria(Templates({HIGH}, {<<2>>}, {m}, {1}),
                               ignore, stop_ids, stop_seqs)] :
     ignore \in BOOLEAN, stop_ids \in {{}, {1}}, stop_seqs \in {{}, {<<1, 0>>}},
     m \in 1 .. 2}

SpecFinish == (\E c \in FinishCfgs : InitWith(c)) /\ [][NextClient]_vars

\* requests with the stop sequence <<2, 1>> whose prompt ends with the first
\* token of the stop sequence or with the whole of it
StopCfg == [max_tokens_per_batch |-> 8, max_seqs_per_batch |-> 2,
            request_queue_size |-> MaxRequests, num_blocks |-> NumBlocks,
            templates |-> WithCriteria(Templates({HIGH}, {<<2>>, <<2, 1>>}, {2}, {1}),
                                       FALSE, {}, {<<2, 1>>})]

SpecStop == InitWith(StopCfg) /\ [][Next]_vars

\* the preemption scenario at the block size of the model: two blocks, an average budget of
\* one block per sequence, a LOW request whose prompt fills one block and a
\* HIGH request whose prompt is one token longer than a block
ScenarioCfg == [max_tokens_per_batch |-> 4 * block_size, max_seqs_per_batch |-> 4,
                request_queue_size |-> MaxRequests, num_blocks |-> 2,
                templates |->
                  Templates({HIGH}, {[k \in 1 .. (block_size + 1) |-> 2]}, {1}, {1})
                  \cup Templates({LOW}, {[k \in 1 .. block_size |-> 1]}, {2}, {1})]

SpecScenario == InitWith(ScenarioCfg) /\ [][Next]_vars

\* the scheduler beside a caller that expands the requests with num_seqs > 1
NextExpand ==
  \/ Next
  \/ \E r \in 1 .. Len(requests) : Expand(r)

\* requests of two sequences over a single block
ExpandCfg == [max_tokens_per_batch |-> 8, max_seqs_per_batch |-> 4,
              request_queue_size |-> MaxRequests, num_blocks |-> 1,
              templates |-> Templates({HIGH}, {<<2>>}, {1}, {1})
                            \cup Templates({LOW}, {<<1>>}, {2}, {2})]

SpecExpand == InitWith(ExpandCfg) /\ [][NextExpand]_vars

\* the same engine under every setting of the batch flags
SpecBudget == (\E c \in BudgetCfgs : InitWith(c)) /\ [][Next]_vars

\* the same engine under memory pressure from three priority classes
SpecPreempt == InitWith(PreemptCfg) /\ [][Next]_vars

\* the same engine serving requests of equal priority
SpecTie == InitWith(TieCfg) /\ [][Next]_vars

\* the same engine serving requests without a token limit
SpecUnlimited == InitWith(UnlimitedCfg) /\ [][Next]_vars

\* the same engine with a cache that cannot serve the next prompt
SpecEvict == InitWith(EvictCfg) /\ [][Next]_vars

\* the same engine serving a request that asks for two sequences
SpecFanout == InitWith(FanoutCfg) /\ [][Next]_vars

\* the main loop calls step until a signal arrives: the scheduler thread
\* moves on from its position in build_sequence_batch or execute_model
Running == pc # "crashed" /\ pc' \in {"idle", "fill", "topup", "exec", "crashed"}

\* the scheduler thread calls step again and again and every call returns,
\* the fill loop being finite: the thread never stays at one position of the
\* loop for ever while the process is up
SpecLoop == InitWith(PreemptCfg) /\ [][Next]_vars /\ WF_pc(Running)

\* --------------------------------------------------------------- properties
\* the blocks held by the sequences of the requests
Sequences == UNION {Range(requests[r].sequences) : r \in 1 .. Len(requests)}
SequenceBlocks == UNION {Range(seq.blocks) : seq \in Sequences}

\* C1 as stated: at every step boundary the free blocks, the distinct blocks
\* held by sequences and the distinct blocks held by cache nodes add up to N
C1_SumOfOwners ==
  pc = "idle" =>
    free_block_count(mem) + Cardinality(SequenceBlocks)
      + Cardinality(CachedBlocks(mem)) = NumBlocks

\* C1: every block is either free or held by a sequence or a cache node, and
\* the free blocks plus the distinct held blocks (a block that a sequence
\* shares with the cache counted once) are the N blocks
C1_Conservation ==
  /\ mem.free \cap (SequenceBlocks \cup CachedBlocks(mem)) = {}
  /\ free_block_count(mem) + Cardinality(SequenceBlocks \cup CachedBlocks(mem))
       = NumBlocks

\* a step boundary where a running sequence shares a block with the cache
\* while another block is free and a third is held by a sequence alone
C1_Witness ==
  /\ pc = "idle"
  /\ SequenceBlocks \cap CachedBlocks(mem) # {}
  /\ SequenceBlocks \ CachedBlocks(mem) # {}
  /\ mem.free # {}

\* C2: a failed allocate_blocks_for leaves the sequence's blocks and its
\* kv cache position exactly as they were before the call
C2_AllOrNothing == fail.valid => fail.before = fail.after

\* the tokens granted to the sequences of the batch
RECURSIVE SumBudgets(_)
SumBudgets(batch) ==
  IF batch = <<>> THEN 0 ELSE Head(batch).token_budget + SumBudgets(Tail(batch))

BatchSequences ==
  {requests[sequences_batch_[k].req].sequences[sequences_batch_[k].idx] :
     k \in 1 .. Len(sequences_batch_)}

RECURSIVE PathTokens(_, _)
PathTokens(nodes, n) ==
  IF n = Root THEN <<>> ELSE PathTokens(nodes, nodes[n].parent) \o nodes[n].token_ids

\* C5: every slot of every cached block holds the keys and values of the
\* token prefix that the path from the root spells up to that slot, and a
\* node has one block per block_size tokens
C5_PathIsPrefix ==
  \A n \in NodeIds : mem.nodes[n].used =>
    LET node == mem.nodes[n]
        before == Len(PathTokens(mem.nodes, node.parent))
        path == PathTokens(mem.nodes, n)
    IN /\ Len(node.token_ids) = Len(node.blocks) * block_size
       /\ node.blocks # <<>>
       /\ \A k \in 1 .. Len(node.blocks) : \A o \in 0 .. (block_size - 1) :
            mem.data[node.blocks[k]][o] = Take(path, before + (k - 1) * block_size + o + 1)

\* C5 for match: the blocks a sequence got from the cache hold its own tokens
C5_MatchedBlocks ==
  \A seq \in Sequences : \A k \in 1 .. seq.shared : \A o \in 0 .. (block_size - 1) :
    mem.data[seq.blocks[k]][o] = Take(seq.token_ids, (k - 1) * block_size + o + 1)

\* C5: the tokens along the path to a node are the prefix its blocks hold,
\* and match hands a sequence only blocks cached for its own token prefix
C5_Cache == C5_PathIsPrefix /\ C5_MatchedBlocks

\* a node that was split when a sequence that ran on its first block was
\* cached: it has two children that differ in their first token
C5_Witness ==
  \E n, m \in NodeIds :
    /\ n # m /\ mem.nodes[n].used /\ mem.nodes[m].used
    /\ mem.nodes[n].parent = mem.nodes[m].parent
    /\ mem.nodes[n].parent # Root
    /\ mem.nodes[n].token_ids[1] # mem.nodes[m].token_ids[1]

\* C6: the blocks a sequence got from the cache stay in the cache, off the
\* free list, for as long as the sequence holds them
C6_SharedStayCached ==
  \A seq \in Sequences : \A k \in 1 .. seq.shared :
    /\ seq.blocks[k] \in CachedBlocks(mem)
    /\ seq.blocks[k] \notin mem.free

\* an allocation evicted the unshared tail of a leaf whose first blocks it
\* had just matched for the sequence
C6_Witness ==
  /\ ev.kind = "sched"
  /\ ev.evicted > 0
  /\ \E seq \in Range(requests[ev.request].sequences) : \E n \in mem.leaf :
        /\ seq.shared > 0
        /\ seq.shared < Len(seq.blocks)
        /\ seq.blocks[seq.shared] = mem.nodes[n].blocks[Len(mem.nodes[n].blocks)]

C8_VictimNotInBatch ==
  (pc = "fill" /\ ev.kind = "preempt") =>
    /\ ev.victim # ev.request
    /\ ev.victim \notin Range(loc.requests_batch)

\* request a is of a lower priority class than request b
LowerPriority(a, b) == requests[a].priority > requests[b].priority

\* the requests that hold blocks and are not in the provisional batch
InFlight == {q \in 1 .. Len(requests) : HoldsBlocks(q) /\ q \notin Range(loc.requests_batch)}

\* C9: when a request is preempted, no request of lower priority keeps
\* blocks outside the provisional batch
C9_LowestPriorityVictim ==
  (pc = "fill" /\ ev.kind = "preempt" /\ requests[ev.victim].alive) =>
    \A q \in InFlight \ {ev.request} : ~LowerPriority(q, ev.victim)

\* C10: the fallback finishes a request only when no other request holds a
\* block and the cache holds no block it could evict
C10_OomOnlyWhenExhausted ==
  ev.kind = "oom" =>
    /\ ev.evictable = 0
    /\ \A q \in 1 .. Len(requests) : ~HoldsBlocks(q)

\* C11: the blocks of every sequence of a batch handed to the executor cover
\* all its tokens
C11_BlocksCoverTokens ==
  pc = "exec" => \A seq \in BatchSequences : kv_cache_capacity(seq) >= num_tokens(seq)

\* C12: every sequence has P <= T <= capacity and kv_cached <= T, and no
\* token is appended to a sequence whose token buffer is full
C12_TokenBounds ==
  /\ \A seq \in Sequences :
        /\ seq.num_prompt_tokens <= num_tokens(seq)
        /\ num_tokens(seq) <= seq.capacity
        /\ seq.kv <= num_tokens(seq)
  /\ ev.kind # "overflow"

\* the sequences that owned no block and hold blocks of the cache after the step
NewlyShared ==
  {<<r, i>> \in (1 .. Len(requests)) \X (1 .. 2) :
     /\ requests[r].alive /\ requests'[r].alive
     /\ i <= Len(requests[r].sequences)
     /\ requests[r].sequences[i].blocks = <<>>
     /\ requests'[r].sequences[i].shared > 0}

\* the CHECK of append_shared_blocks failed: the matched tokens are not
\* fewer than the prompt tokens
SharedCheckFailed == pc = "crashed" /\ ev.kind = "check" /\ ev.request # 0

\* C13: a sequence that owned no block and gets matched blocks covering its
\* whole prompt has kv_cached = P - 1; in every other case kv_cached is the
\* number of matched tokens, which is less than P
C13_SharedKvPosition ==
  /\ [][\A e \in NewlyShared :
          LET seq == requests'[e[1]].sequences[e[2]]
              matched == seq.shared * block_size
          IN IF matched = seq.num_prompt_tokens
               THEN seq.kv = seq.num_prompt_tokens - 1
               ELSE seq.kv = matched /\ matched < seq.num_prompt_tokens]_vars
  /\ [](~SharedCheckFailed)

\* the prompts of a new request that starts with the tokens the sequence has
\* in the kv cache
RoundTripPrompts(seq) ==
  {tokens_in_kv_cache(seq) \o ext : ext \in {<<>>, <<1>>, <<2>>, <<1, 1>>, <<1, 2>>}}

\* the tokens matched for a new sequence with the prompt, allocated right
\* after the release of seq
RoundTrip(seq, prompt) ==
  LET Released(rel) ==
        allocate_shared_blocks(rel.M, NewSequence(prompt, Len(prompt) + 3, 2),
                               CacheNow(rel.M)).seq.shared * block_size
  IN Released(release_blocks_for(mem, seq, CacheNow(mem)))

\* the sequences release can be called on with a whole number of blocks in
\* the kv cache
Releasable ==
  {seq \in Sequences : seq.blocks # <<>> /\ seq.kv > 0 /\ seq.kv % block_size = 0}

\* C14 as stated: the new sequence is matched exactly k tokens
C14_RoundTripExact ==
  \A seq \in Releasable : \A prompt \in RoundTripPrompts(seq) :
    RoundTrip(seq, prompt) = seq.kv

\* C14: the new sequence is matched at least the k tokens the released
\* sequence had in the kv cache, and exactly k when its prompt has no
\* further whole block
C14_RoundTrip ==
  \A seq \in Releasable : \A prompt \in RoundTripPrompts(seq) :
    /\ RoundTrip(seq, prompt) >= seq.kv
    /\ Len(prompt) < seq.kv + block_size => RoundTrip(seq, prompt) = seq.kv

\* a sequence whose blocks are not in the cache can be released, and a new
\* request with its tokens is then matched all of them, while a longer
\* prompt is matched a further block that was cached before
C14_Witness ==
  \E seq \in Releasable :
    /\ seq.shared = 0
    /\ Range(seq.blocks) \cap CachedBlocks(mem) = {}
    /\ RoundTrip(seq, tokens_in_kv_cache(seq)) = seq.kv
    /\ \E other \in Releasable : \E prompt \in RoundTripPrompts(other) :
         RoundTrip(other, prompt) > other.kv

\* C15: a failed allocate_blocks_for leaves the prefix cache and the free
\* list as they were and evicts no block
C15_FailedAllocationFrame ==
  fail.valid => fail.cache_kept /\ fail.evicted = 0

\* C16: a request whose client is gone when a step starts is released by the
\* carry-over of that step: at the start of the fill phase it is freed, or at
\* least it holds no block and is not waiting to be scheduled again
Cancelled == {r \in 1 .. Len(requests) : requests[r].alive /\ Request_is_cancelled(requests[r])}

C16_CancelledReleased ==
  [][(pc = "idle" /\ pc' = "fill") =>
       \A r \in Cancelled :
         \/ ~requests'[r].alive
         \/ /\ r \notin priority_queue_'
            /\ \A i \in 1 .. Len(requests'[r].sequences) :
                 requests'[r].sequences[i].blocks = <<>>]_vars

\* C17: with handler threads that call schedule at any point of the scheduler
\* loop, every accepted request is handed from the intake queue to the
\* priority queue exactly once: the drain of a step moves every queued request
\* and empties the queue, a request that left the queue never enters it
\* again, a queued request is nowhere else in the scheduler, and a call of
\* schedule changes nothing but the intake queue (and creates its request)
InScheduler(r) ==
  \/ r \in priority_queue_
  \/ r \in Range(requests_batch_) \cup Range(preemptable_candidates_)
  \/ r \in Range(loc.requests_batch)

Queued == Range(request_queue_)

Rejected == {r \in 1 .. Len(requests) : requests[r].error = "RESOURCE_EXHAUSTED"}

C18_FullQueueRejects ==
  /\ [][(Len(requests') > Len(requests) /\ Len(request_queue_) >= cfg.request_queue_size) =>
          /\ Len(requests') \in Rejected'
          /\ SubSeq(requests', 1, Len(requests)) = requests
          /\ UNCHANGED <<now, mem, request_queue_, priority_queue_, requests_batch_,
                         sequences_batch_, preemptable_candidates_, pc, loc>>]_vars
  /\ [](/\ Len(request_queue_) <= cfg.request_queue_size
        /\ \A r \in Rejected :
             ~requests[r].alive /\ r \notin Queued /\ ~InScheduler(r))

\* a call was refused while the queue was full and the scheduler was in a step
C18_Witness ==
  /\ Rejected # {}
  /\ Len(request_queue_) = cfg.request_queue_size
  /\ pc = "exec"

\* C19: after a token is appended the finish reason of a sequence is that of
\* the first test that applies in the order eos (unless ignored), stop token,
\* stop sequence, limit of new tokens: a stop criterion gives STOP also when
\* the limit is reached by the same token, the limit alone gives LENGTH, and
\* with none of them the sequence is not finished, cancelled or not
Generating ==
  {e \in (1 .. Len(requests)) \X (1 .. 2) :
     /\ requests[e[1]].alive
     /\ e[2] <= Len(requests[e[1]].sequences)
     /\ num_generated_tokens(requests[e[1]].sequences[e[2]]) >= 1}

StopFound(seq) ==
  eos_token_found(seq) \/ stop_token_found(seq) \/ stop_sequence_found(seq)

C20_ExpandedBeforeFill ==
  /\ pc = "fill" =>
       \A r \in 1 .. Len(requests) :
         requests[r].alive => ~should_expand_sequences(requests[r])
  /\ \A r \in 1 .. Len(requests) :
       (requests[r].alive /\ Len(requests[r].sequences) < requests[r].num_seqs)
         => ~Request_is_finished(requests[r])

\* C21: two distinct children of a node of the prefix tree never start with
\* the same whole block: their first block_size tokens differ
Siblings ==
  {e \in NodeIds \X NodeIds :
     /\ e[1] # e[2]
     /\ mem.nodes[e[1]].used /\ mem.nodes[e[2]].used
     /\ mem.nodes[e[1]].parent = mem.nodes[e[2]].parent}

C21_SiblingsFirstBlock ==
  \A e \in Siblings :
    Take(mem.nodes[e[1]].token_ids, block_size) # Take(mem.nodes[e[2]].token_ids, block_size)

\* the same with the first token in the place of the first block
C21_SiblingsFirstToken ==
  \A e \in Siblings : mem.nodes[e[1]].token_ids[1] # mem.nodes[e[2]].token_ids[1]

\* two children of a node that start with the same token
C21_Witness ==
  \E e \in Siblings : mem.nodes[e[1]].token_ids[1] = mem.nodes[e[2]].token_ids[1]

\* C22: the block counter of the prefix cache is the number of blocks held
\* by the nodes of the tree
RECURSIVE SumBlocks(_, _)
SumBlocks(nodes, S) ==
  IF S = {} THEN 0
  ELSE LET n == CHOOSE x \in S : TRUE
       IN Len(nodes[n].blocks) + SumBlocks(nodes, S \ {n})

C22_BlockCounter ==
  mem.nblk = SumBlocks(mem.nodes, {n \in NodeIds : mem.nodes[n].used})

\* an allocation has just evicted blocks from a tree that still holds a
\* node below another node, made by a split or by an insert under a child
C22_Witness ==
  /\ ev.kind = "sched"
  /\ ev.evicted > 0
  /\ mem.nblk > 0
  /\ \E n \in NodeIds : mem.nodes[n].used /\ mem.nodes[n].parent # Root

\* C23: the step that first schedules the HIGH request h while the LOW
\* request l of the last batch holds one of the two blocks. ScenarioStep is
\* the step that ends the build of that batch
ScenarioStep(l, h) ==
  /\ pc # "exec" /\ pc' = "exec"
  /\ requests_batch_ = <<l>>
  /\ requests[l].priority = LOW /\ ~Request_is_finished(requests[l])
  /\ requests[h].alive /\ requests[h].priority = HIGH
  /\ h \in Range(requests_batch_')
  /\ requests'[h].sequences[1].kv = 0
  /\ \A r \in 1 .. Len(requests) : requests[r].alive => r \in {l, h}

Grants == {<<e.req, e.token_budget>> : e \in Range(sequences_batch_)}

SingleDecodeDone ==
  /\ Len(requests) = 1
  /\ requests[1].alive
  /\ requests[1].sequences[1].num_prompt_tokens = 2 * block_size - 3
  /\ requests[1].sequences[1].token_ids = [k \in 1 .. (2 * block_size) |-> 1]
  /\ requests[1].sequences[1].max_tokens = 3

C24_SingleDecode ==
  /\ [](SingleDecodeDone =>
          /\ check_finished(requests[1].sequences[1]) = "LENGTH"
          /\ requests[1].sequences[1].kv = 2 * block_size - 1
          /\ Len(requests[1].sequences[1].blocks) = 2)
  /\ [][(SingleDecodeDone /\ pc = "idle" /\ pc' = "fill") =>
          /\ ~requests'[1].alive
          /\ mem'.nblk = 1
          /\ \E n \in NodeIds :
               /\ mem'.nodes[n].used
               /\ mem'.nodes[n].token_ids = [k \in 1 .. block_size |-> 1]
          /\ free_block_count(mem') = NumBlocks - 1]_vars

\* the same scenario with every block free after the release
C24_SingleDecodeAllFree ==
  [][(SingleDecodeDone /\ pc = "idle" /\ pc' = "fill") =>
       /\ ~requests'[1].alive
       /\ free_block_count(mem') = NumBlocks]_vars

\* the request has finished its third step and waits for the carry-over
C24_Witness == SingleDecodeDone /\ pc = "idle" /\ now = 0

\* C25: the cache holds one node X below the root and a sequence is about to
\* be released whose cached whole blocks Y share the first blocks p of X,
\* not all of them, and go on with a different block. The insert of Y leaves
\* the node p with exactly two children, the tail x of X with the blocks X
\* had for it and the tail y of Y with the blocks of the sequence, and the
\* number of cached blocks is blocks(p) + blocks(x) + blocks(y)
WholeBlocks(seq) == Take(seq.token_ids, round_down(seq.kv, block_size))

SplitCases ==
  {e \in NodeIds \X Sequences :
     LET X == mem.nodes[e[1]]
         Y == WholeBlocks(e[2])
         p == round_down(common_prefix_length(Y, X.token_ids), block_size)
     IN /\ X.used /\ X.parent = Root
        /\ \A m \in NodeIds : mem.nodes[m].used => m = e[1]
        /\ Len(e[2].blocks) * block_size >= Len(Y)
        /\ 0 < p /\ p < Len(X.token_ids) /\ p < Len(Y)}

SplitResult(n, seq) ==
  LET X == mem.nodes[n]
      Y == WholeBlocks(seq)
      p == round_down(common_prefix_length(Y, X.token_ids), block_size)
      Inserted(M) ==
        /\ M.nodes[n].token_ids = Take(X.token_ids, p)
        /\ M.nodes[n].blocks = Take(X.blocks, p \div block_size)
        /\ M.nodes[n].parent = Root
        /\ Children(M.nodes, Root) = {n}
        /\ \E x, y \in NodeIds :
             /\ x # y
             /\ Children(M.nodes, n) = {x, y}
             /\ Children(M.nodes, x) = {} /\ Children(M.nodes, y) = {}
             /\ M.nodes[x].token_ids = SubSeqFrom(X.token_ids, p)
             /\ M.nodes[x].blocks = SubSeqFrom(X.blocks, p \div block_size)
             /\ M.nodes[y].token_ids = SubSeqFrom(Y, p)
             /\ M.nodes[y].blocks =
                  SubSeq(seq.blocks, (p \div block_size) + 1, Len(Y) \div block_size)
        /\ M.nblk = (Len(X.token_ids) + Len(Y) - p) \div block_size
  IN Inserted(insert(mem, tokens_in_kv_cache(seq), seq.blocks, CacheNow(mem)).M)

C25_Split == \A e \in SplitCases : SplitResult(e[1], e[2])

\* X and Y of two blocks each that share their first block
C25_Witness ==
  \E e \in SplitCases :
    /\ Len(mem.nodes[e[1]].blocks) = 2
    /\ Len(WholeBlocks(e[2])) = 2 * block_size
    /\ SplitResult(e[1], e[2])

\* C26: a build that ends its fill loop with token budget left and whose
\* top-up finds the memory it asks for keeps the batch and its order and
\* raises the grants: no grant shrinks or exceeds the tokens the sequence
\* still has to process, the sequences are served in batch order (a sequence
\* that is not granted all of its tokens is followed only by sequences with
\* their first grant), and in the end the whole budget is granted or every
\* sequence is granted all of its tokens
C26_TopUp ==
  [][(pc # "exec" /\ pc' = "exec" /\ loc.remaining_token_budget > 0 /\ ~fail'.valid) =>
       LET old == loc.sequences_batch
           new == sequences_batch_'
           left(k) == num_tokens(requests'[new[k].req].sequences[new[k].idx])
                        - requests'[new[k].req].sequences[new[k].idx].kv
       IN /\ Len(new) = Len(old)
          /\ \A k \in 1 .. Len(new) :
               /\ new[k].req = old[k].req /\ new[k].idx = old[k].idx
               /\ old[k].token_budget <= new[k].token_budget
               /\ new[k].token_budget <= left(k)
               /\ new[k].token_budget < left(k) =>
                    \A j \in (k + 1) .. Len(new) : new[j].token_budget = old[j].token_budget
          /\ \/ SumBudgets(new) = token_budget_per_batch
             \/ \A k \in 1 .. Len(new) : new[k].token_budget = left(k)]_vars

\* a budget of 2 tokens for 2 sequences and a single prompt of 3 tokens: the
\* fill loop granted the average of 1 token, the top-up the whole budget
C26_Witness ==
  /\ pc = "exec"
  /\ cfg.max_tokens_per_batch = 2 /\ cfg.max_seqs_per_batch = 2
  /\ Len(sequences_batch_) = 1
  /\ sequences_batch_[1].token_budget = 2
  /\ requests[sequences_batch_[1].req].sequences[1].kv = 0
  /\ num_tokens(requests[sequences_batch_[1].req].sequences[1]) = 3

C29_TokensToProcess ==
  [][pc = "exec" =>
       \A k \in 1 .. Len(sequences_batch_) :
         LET e == sequences_batch_[k]
             old == requests[e.req].sequences[e.idx]
             new == requests'[e.req].sequences[e.idx]
             n_tokens_to_process == Min(num_tokens(old) - old.kv, e.token_budget)
             slot(M, p) == M.data[old.blocks[(p \div block_size) + 1]][p % block_size]
         IN /\ 1 <= n_tokens_to_process
            /\ n_tokens_to_process <= num_tokens(old) - old.kv
            /\ pc' = "idle" =>
                 /\ new.kv = old.kv + n_tokens_to_process
                 /\ \A p \in new.kv .. (kv_cache_capacity(old) - 1) :
                      slot(mem', p) = slot(mem, p)]_vars

\* C30: in every state of the prefix cache and for every n, evict(n)
\* returns min(n, U), where U is the number of cached blocks that only the
\* cache refers to; it removes that many blocks from the cache, all of them
\* unshared, and the allocator gets exactly these blocks back
C30_EvictCount ==
  \A n \in 0 .. NumBlocks :
    LET r == evict(mem, n)
        U == Cardinality(EvictableBlocks(mem))
        removed == CachedBlocks(mem) \ CachedBlocks(r.M)
    IN /\ r.evicted = Min(n, U)
       /\ Cardinality(removed) = r.evicted
       /\ removed \subseteq EvictableBlocks(mem)
       /\ CachedBlocks(r.M) \subseteq CachedBlocks(mem)
       /\ r.M.free = mem.free \cup removed
       /\ r.M.nblk = mem.nblk - r.evicted

\* a cache with a shared block, an unshared block and a node under a node,
\* where the eviction of every unshared block takes more than one round
C30_Witness ==
  /\ \E b \in CachedBlocks(mem) : is_shared(mem, b)
  /\ \E a \in NodeIds : \E b \in NodeIds :
       mem.nodes[a].used /\ mem.nodes[b].used /\ mem.nodes[b].parent = a
       /\ Range(mem.nodes[a].blocks) \cap EvictableBlocks(mem) # {}
       /\ Range(mem.nodes[b].blocks) \cap EvictableBlocks(mem) # {}
  /\ evict(mem, NumBlocks).evicted = Cardinality(EvictableBlocks(mem))
  /\ evict_helper(mem, NumBlocks).evicted < evict(mem, NumBlocks).evicted

\* C31: in every state of the prefix cache, the leaf that evict(1) shrinks
\* or removes has the smallest current last access time among the leaves
\* that have a block to evict: no leaf with evictable blocks was accessed
\* strictly earlier
C31_EvictsLeastRecent ==
  LET r == evict(mem, 1)
      victims == {v \in mem.leaf : r.M.nodes[v].blocks # mem.nodes[v].blocks}
      evictable == {l \in mem.leaf :
                      NonSharedStart(mem, mem.nodes[l].blocks) < Len(mem.nodes[l].blocks)}
  IN \A v \in victims : \A l \in evictable :
       mem.nodes[v].last_access_time <= mem.nodes[l].last_access_time

\* the blocks on the path from the root to the end of node n
RECURSIVE PathBlocks(_, _)
PathBlocks(nodes, n) ==
  IF n = Root THEN <<>> ELSE PathBlocks(nodes, nodes[n].parent) \o nodes[n].blocks

\* the token sequences the cache is asked about: all of up to two blocks
\* and one token
Queries == UNION {[1 .. k -> {1, 2}] : k \in 0 .. (2 * block_size + 1)}

\* C32: in every state of the prefix cache and for every query q, match
\* returns the blocks of the longest block-aligned prefix of q that lies on
\* a path of the tree, and nothing longer is cached on any path; the
\* children of a node differ in their first block, so that at most one
\* child matches and the order in which the children are tried does not
\* matter
C32_LongestPrefix ==
  LET used == {n \in NodeIds : mem.nodes[n].used}
      tokens == [n \in NodeIds |-> PathTokens(mem.nodes, n)]
      blocks == [n \in NodeIds |-> PathBlocks(mem.nodes, n)]
      at == CacheNow(mem)
  IN /\ \A q \in Queries :
          LET got == match(mem, q, at).blocks
              cached(k) == \E n \in used :
                             /\ k * block_size <= Len(tokens[n])
                             /\ Take(tokens[n], k * block_size) = Take(q, k * block_size)
          IN /\ Len(got) * block_size <= Len(q)
             /\ Len(got) > 0 =>
                  \E n \in used :
                    /\ Len(got) * block_size <= Len(tokens[n])
                    /\ Take(tokens[n], Len(got) * block_size)
                         = Take(q, Len(got) * block_size)
                    /\ Take(blocks[n], Len(got)) = got
             /\ \A j \in (Len(got) + 1) .. (Len(q) \div block_size) : ~cached(j)
     /\ \A c, d \in used :
          (c # d /\ mem.nodes[c].parent = mem.nodes[d].parent) =>
            Take(mem.nodes[c].token_ids, block_size)
              # Take(mem.nodes[d].token_ids, block_size)

\* the cache holds a node of two blocks and a query that shares its first
\* block only: the match ends inside the node with the first block of it
C32_Witness ==
  \E q \in Queries : \E n \in NodeIds :
    /\ mem.nodes[n].used /\ Len(mem.nodes[n].blocks) = 2
    /\ Len(q) >= 2 * block_size
    /\ Take(q, block_size) = Take(mem.nodes[n].token_ids, block_size)
    /\ match(mem, q, CacheNow(mem)).blocks = Take(mem.nodes[n].blocks, 1)

\* C33: in every state and for every sequence that holds the blocks of its
\* cached tokens, insert of these tokens and blocks returns block_size times
\* the number of blocks the call adds to the cache, which is the length of
\* the block-aligned part of the tokens that match did not find before; the
\* blocks before that part are the ones the cache had; a second insert of
\* the same tokens returns 0 and leaves the tokens, blocks and shape of the
\* tree as they are
C33_InsertCount ==
  \A seq \in Sequences :
    LET tokens == tokens_in_kv_cache(seq)
        n_blocks == Min(Len(tokens) \div block_size, Len(seq.blocks))
        at == CacheNow(mem)
        before == Len(match(mem, Take(tokens, n_blocks * block_size), at).blocks)
        r == insert(mem, tokens, seq.blocks, at)
        again == insert(r.M, tokens, seq.blocks, at + 1)
    IN /\ r.inserted = block_size * (r.M.nblk - mem.nblk)
       /\ r.inserted = block_size * Cardinality(CachedBlocks(r.M) \ CachedBlocks(mem))
       /\ r.inserted = (n_blocks - before) * block_size
       /\ CachedBlocks(r.M) \ CachedBlocks(mem)
            \subseteq Range(SubSeq(seq.blocks, before + 1, n_blocks))
       /\ Len(match(r.M, tokens, at).blocks) = n_blocks
       /\ again.inserted = 0
       /\ CacheView(again.M) = CacheView(r.M)

\* a sequence whose cached tokens are partly in the cache: its insert adds
\* some blocks and reuses others
C33_Witness ==
  \E seq \in Sequences :
    LET tokens == tokens_in_kv_cache(seq)
        r == insert(mem, tokens, seq.blocks, CacheNow(mem))
    IN /\ 0 < r.inserted
       /\ r.inserted < round_down(Len(tokens), block_size)

\* C34: a sequence is finished with STOP by a stop sequence only if it has
\* generated a token and the stop sequence is a suffix of its generated
\* tokens, the tokens behind the prompt; a sequence without a generated
\* token is not finished with STOP
C34_StopOnGeneratedOnly ==
  \A seq \in Sequences :
    /\ num_tokens(seq) = seq.num_prompt_tokens => check_finished(seq) # "STOP"
    /\ (check_finished(seq) = "STOP" /\ ~eos_token_found(seq) /\ ~stop_token_found(seq)) =>
         \E stop_sequence \in seq.stop_sequences :
           sequence_end_withs(SubSeqFrom(seq.token_ids, seq.num_prompt_tokens),
                              stop_sequence)

\* C35: no iteration of the fill loop ends in the failed CHECK of
\* append_shared_blocks: whenever a sequence without blocks is matched
\* against the prefix cache, the matched tokens, less one when they equal the
\* prompt, are fewer than the prompt tokens
C35_SharedCheckHolds ==
  [][pc = "fill" =>
       ~(pc' = "crashed" /\ ev'.kind = "check" /\ ev'.request # 0)]_vars

\* C36: every block of the pool is either on the free list, with no holder,
\* or off the free list with at least one holder, and its reference count is
\* the number of its holders: the block handles in the block lists of the
\* sequences and of the nodes of the prefix cache; the free blocks and the
\* held blocks together are the N blocks
C36_RefCounts ==
  LET handles(b) ==
        Cardinality({e \in (1 .. Len(requests)) \X (1 .. 2) \X (1 .. (2 * NumBlocks)) :
                       /\ e[2] <= Len(requests[e[1]].sequences)
                       /\ e[3] <= Len(requests[e[1]].sequences[e[2]].blocks)
                       /\ requests[e[1]].sequences[e[2]].blocks[e[3]] = b})
        + Cardinality({e \in NodeIds \X (1 .. NumBlocks) :
                         /\ e[2] <= Len(mem.nodes[e[1]].blocks)
                         /\ mem.nodes[e[1]].blocks[e[2]] = b})
      pool == 0 .. (cfg.num_blocks - 1)
      held == {b \in pool : handles(b) > 0}
  IN /\ \A b \in pool :
          /\ mem.rc[b] = handles(b)
          /\ b \in mem.free <=> handles(b) = 0
     /\ mem.free \subseteq pool
     /\ free_block_count(mem) + Cardinality(held) = cfg.num_blocks
     /\ \A r \in 1 .. Len(requests) :
          /\ Len(requests[r].sequences) <= 2
          /\ \A i \in 1 .. Len(requests[r].sequences) :
               Len(requests[r].sequences[i].blocks) <= 2 * NumBlocks

\* a block held by a node of the cache and by two sequences, beside a block
\* with a single holder and a free block
C36_Witness ==
  /\ \E b \in BlockIds : mem.rc[b] = 3 /\ b \in CachedBlocks(mem)
  /\ \E b \in BlockIds : mem.rc[b] = 1
  /\ mem.free # {}

\* C37: between two steps every request the scheduler owns is in exactly one
\* of the intake queue, the priority queue and the batch, no request is twice
\* in the intake queue, the batch or the preemption candidates, and a request
\* that was finished and deleted is in none of them
C37_Placement ==
  pc = "idle" =>
    LET Once(s) == \A i, j \in 1 .. Len(s) : s[i] = s[j] => i = j
        places(r) == (IF r \in Range(request_queue_) THEN 1 ELSE 0)
                     + (IF r \in priority_queue_ THEN 1 ELSE 0)
                     + (IF r \in Range(requests_batch_) THEN 1 ELSE 0)
    IN /\ \A r \in 1 .. Len(requests) :
            IF requests[r].alive
              THEN places(r) = 1
              ELSE /\ places(r) = 0
                   /\ r \notin Range(preemptable_candidates_)
       /\ Once(request_queue_)
       /\ Once(requests_batch_)
       /\ Once(preemptable_candidates_)

\* C38: when the model runs on a batch, every position of a sequence whose
\* cache slot the step writes is in a block the sequence holds, and nobody
\* else holds that block, unless the position is the last one of a prompt
\* that was matched whole; apart from these re-written slots, no two
\* sequences of the batch write the same slot
C38_WritesOwnSlots ==
  [][(pc = "exec" /\ ev'.kind # "check") =>
       LET seqOf(k) == requests[sequences_batch_[k].req].sequences[sequences_batch_[k].idx]
           written(k) == seqOf(k).kv .. (num_tokens(seqOf(k)) - 1)
           rewritten(k, p) ==
             /\ seqOf(k).shared * block_size = seqOf(k).num_prompt_tokens
             /\ p = seqOf(k).num_prompt_tokens - 1
           slot(k, p) == <<seqOf(k).blocks[(p \div block_size) + 1], p % block_size>>
       IN /\ \A k \in 1 .. Len(sequences_batch_) : \A p \in written(k) :
               /\ (p \div block_size) + 1 <= Len(seqOf(k).blocks)
               /\ seqOf(k).blocks[(p \div block_size) + 1] \notin mem.free
               /\ ~rewritten(k, p) => mem.rc[seqOf(k).blocks[(p \div block_size) + 1]] = 1
          /\ \A k, l \in 1 .. Len(sequences_batch_) :
               \A p \in written(k) : \A q \in written(l) :
                 (k # l /\ slot(k, p) = slot(l, q)) => (rewritten(k, p) /\ rewritten(l, q))]_vars

\* the model is about to run on two sequences that were both matched the
\* whole of their prompt in the same cached block, beside a third block that
\* a sequence holds alone
C38_Witness ==
  /\ pc = "exec"
  /\ \E k, l \in 1 .. Len(sequences_batch_) :
       LET a == requests[sequences_batch_[k].req].sequences[sequences_batch_[k].idx]
           b == requests[sequences_batch_[l].req].sequences[sequences_batch_[l].idx]
       IN /\ k # l
          /\ a.shared * block_size = a.num_prompt_tokens
          /\ a.kv = a.num_prompt_tokens - 1
          /\ b.shared * block_size = b.num_prompt_tokens
          /\ b.kv = b.num_prompt_tokens - 1
          /\ a.blocks[a.shared] = b.blocks[b.shared]
          /\ kv_cache_capacity(a) >= num_tokens(a)
          /\ kv_cache_capacity(b) >= num_tokens(b)

\* C39: under a scheduler loop that keeps calling step, every request that
\* was accepted is finished and deleted in the end, and once no request is
\* left the priority queue, the preemption candidates and the batch are empty
\* and every block is free or held by the cache alone
C39_AllFinish ==
  /\ \A r \in 1 .. MaxRequests :
       (r <= Len(requests) /\ requests[r].alive)
         ~> (r <= Len(requests) /\ ~requests[r].alive)
  /\ [](( /\ pc = "idle"
          /\ request_queue_ = <<>>
          /\ \A r \in 1 .. Len(requests) : ~requests[r].alive) =>
         /\ priority_queue_ = {}
         /\ preemptable_candidates_ = <<>>
         /\ requests_batch_ = <<>>
         /\ sequences_batch_ = <<>>
         /\ \A b \in 0 .. (cfg.num_blocks - 1) :
              \/ b \in mem.free
              \/ b \in CachedBlocks(mem) /\ mem.rc[b] = 1)

\* C40: an iteration of the fill loop that stays in the loop takes a request
\* out of the priority queue or an entry out of the preemption candidates and
\* adds to neither, so the loop ends after at most as many iterations as the
\* two hold together, also when the victim it popped is the request itself
C40_FillLoopTerminates ==
  [][(pc = "fill" /\ pc' = "fill") =>
       /\ priority_queue_' \subseteq priority_queue_
       /\ Len(preemptable_candidates_') <= Len(preemptable_candidates_)
       /\ Cardinality(priority_queue_') + Len(preemptable_candidates_')
            < Cardinality(priority_queue_) + Len(preemptable_candidates_)
       /\ ev'.kind \in {"sched", "preempt", "selfpop"}
       /\ ev'.kind = "sched" => ev'.request \notin priority_queue_'
       /\ ev'.kind = "selfpop" =>
            /\ \A i \in 1 .. Len(requests[ev'.victim].sequences) :
                 LET old == requests[ev'.victim].sequences[i].blocks
                     new == requests'[ev'.victim].sequences[i].blocks
                 IN Len(new) >= Len(old) /\ Take(new, Len(old)) = old
            /\ Len(preemptable_candidates_') < Len(preemptable_candidates_)]_vars

\* the loop is back at its head after it popped the request itself as the
\* victim and released nothing, and the request is still to be tried
C40_Witness ==
  /\ pc = "fill"
  /\ ev.kind = "selfpop"
  /\ ev.request = ev.victim
  /\ ev.request \in priority_queue_
  /\ LoopCond

====
